---- MODULE Spec2Model ----
(***************************************************************************)
(* Model of index.js, the Whisper batch transcription driver: module load  *)
(* (option parsing, OpenAI client construction), main() with its two       *)
(* precondition checks, directory creation, the recursive findAudioFiles   *)
(* scan, the sequential transcribe/write loop and the summary.             *)
(*                                                                         *)
(* Strings that the code takes apart (file names, extensions) are          *)
(* sequences of one-character strings; a path is a sequence of such        *)
(* segments.  An optional value (undefined / null in the code) is the      *)
(* empty sequence None, a present value x is Some(x).                      *)
(***************************************************************************)
EXTENDS Integers, Sequences, FiniteSets, TLC

\* ------------------------------------------------------------ bounds ----
\* Nesting depth of directories below the source directory.
MaxDepth == 1
\* Largest number of entries in one directory listing.
MaxEntries == 2
\* Largest number of audio files in the source tree of a full run.
MaxAudio == 2

\* ------------------------------------------------------- JS values ------
None == <<>>
Some(x) == <<x>>

\* Truthiness taken for a test against undefined and null only.
Truthy_notNull(v) == v # None

\* JS truthiness of an optional string: undefined, null and '' are falsy.
Truthy(v) == v # None /\ v[1] # ""

\* ----------------------------------------------------------- strings ----
UpperToLower ==
  [c \in {"A", "B", "E", "G", "M", "P", "T", "V", "W", "X"} |->
     CASE c = "A" -> "a" [] c = "B" -> "b" [] c = "E" -> "e" [] c = "G" -> "g"
       [] c = "M" -> "m" [] c = "P" -> "p" [] c = "T" -> "t" [] c = "V" -> "v"
       [] c = "W" -> "w" [] c = "X" -> "x"]

\* String.prototype.toLowerCase
toLowerCase(s) ==
  [k \in 1..Len(s) |-> IF s[k] \in DOMAIN UpperToLower THEN UpperToLower[s[k]] ELSE s[k]]

\* Index of the last '.' of a name, 0 if there is none.
LastDot(name) ==
  LET dots == {k \in 1..Len(name) : name[k] = "."}
  IN IF dots = {} THEN 0 ELSE CHOOSE k \in dots : \A j \in dots : j <= k

\* path.extname of a single path segment: from the last '.' to the end; ''
\* when there is no '.', when the only '.' is the first character, and for '..'.
extname(name) ==
  LET d == LastDot(name)
  IN IF d <= 1 THEN <<>>
     ELSE IF name = <<".", ".">> THEN <<>>
     ELSE SubSeq(name, d, Len(name))

EndsWith(s, suffix) ==
  /\ Len(suffix) <= Len(s)
  /\ SubSeq(s, Len(s) - Len(suffix) + 1, Len(s)) = suffix

\* path.basename(p, ext): the last segment of p, with ext removed from its end
\* when the segment ends with ext and is not ext itself.
basename(p, ext) ==
  LET seg == p[Len(p)]
  IN IF ext # <<>> /\ seg # ext /\ EndsWith(seg, ext)
       THEN SubSeq(seg, 1, Len(seg) - Len(ext))
       ELSE seg

\* path.join(dir, name) for a single-segment name
join(dir, name) == Append(dir, name)

\* path.relative(from, to) for a path `to` below `from`
relative(from, to) == SubSeq(to, Len(from) + 1, Len(to))

\* ---------------------------------------------------------- constants ---
SOURCE_DIR == << <<"s", "o", "u", "r", "c", "e">> >>
OUTPUT_DIR == << <<"t", "r", "a", "n", "s", "c", "r", "i", "p", "t", "i", "o", "n", "s">> >>

SUPPORTED_FORMATS ==
  << <<".", "m", "p", "3">>, <<".", "m", "p", "4">>, <<".", "m", "p", "e", "g">>,
     <<".", "m", "p", "g", "a">>, <<".", "m", "4", "a">>, <<".", "w", "a", "v">>,
     <<".", "w", "e", "b", "m">> >>

\* Array.prototype.includes
includes(arr, x) == \E k \in 1..Len(arr) : arr[k] = x

\* The own properties of the MODELS object literal.
MODELS ==
  [m \in {"whisper-1", "whisper-1-quantized"} |->
     IF m = "whisper-1" THEN "OpenAI Whisper (most accurate)"
                        ELSE "OpenAI Whisper (optimized)"]

\* Property names every object literal inherits from Object.prototype.
ObjectPrototypeKeys ==
  {"constructor", "toString", "valueOf", "hasOwnProperty", "__proto__"}

\* MODELS[key]: an own property, else the inherited member (an object, which
\* is truthy), else undefined.
ModelsLookup(key) ==
  IF key \in DOMAIN MODELS THEN Some(MODELS[key])
  ELSE IF key \in ObjectPrototypeKeys THEN Some("[inherited]")
  ELSE None

\* ------------------------------------------------------ directory trees --
\* A directory listing is what readdir(dir, {withFileTypes: true}) returns: a
\* sequence of dirents [name, kind, children], children being the listing of
\* a dirent that is a directory.
FileEnt(n) == [name |-> n, kind |-> "file", children |-> <<>>]
DirEnt(n, l) == [name |-> n, kind |-> "dir", children |-> l]

Names(l) == {l[k].name : k \in 1..Len(l)}

RECURSIVE ListingsOfLen(_, _)
\* The listings with exactly n entries over the dirents D, all names distinct.
ListingsOfLen(D, n) ==
  IF n = 0 THEN {<<>>}
  ELSE {Append(l, e) : <<l, e>> \in
          {le \in ListingsOfLen(D, n - 1) \X D : le[2].name \notin Names(le[1])}}

RECURSIVE Listings(_, _, _, _)
\* Every listing of at most `width` entries whose files are named from
\* `fileNames` and whose directories, named from `dirNames`, nest at most
\* `depth` levels deep.
Listings(fileNames, dirNames, depth, width) ==
  LET files == {FileEnt(n) : n \in fileNames}
      dirs  == IF depth = 0 THEN {}
               ELSE {DirEnt(dn, l) : dn \in dirNames,
                                     l \in Listings(fileNames, dirNames, depth - 1, width)}
  IN UNION {ListingsOfLen(files \cup dirs, n) : n \in 0..width}

\* ------------------------------------------------------ findAudioFiles --
RECURSIVE findAudioFiles_caseSensitive(_, _)
\* findAudioFiles comparing the extension as written, without toLowerCase
findAudioFiles_caseSensitive(dir, files) ==
  IF files = <<>> THEN <<>>
  ELSE LET file     == Head(files)
           filePath == join(dir, file.name)
           found    == IF file.kind = "dir"
                         THEN findAudioFiles_caseSensitive(filePath, file.children)
                       ELSE IF includes(SUPPORTED_FORMATS, extname(file.name))
                         THEN <<filePath>>
                       ELSE <<>>
       IN found \o findAudioFiles_caseSensitive(dir, Tail(files))

RECURSIVE findAudioFiles(_, _)
\* findAudioFiles(dir), `files` being the listing readdir returns for dir:
\* directories are descended into, other entries are kept when their
\* lowercased extension is a supported format; results keep listing order.
findAudioFiles(dir, files) ==
  IF files = <<>> THEN <<>>
  ELSE LET file     == Head(files)
           filePath == join(dir, file.name)
           found    == IF file.kind = "dir"
                         THEN findAudioFiles(filePath, file.children)
                       ELSE IF includes(SUPPORTED_FORMATS, toLowerCase(extname(file.name)))
                         THEN <<filePath>>
                       ELSE <<>>
       IN found \o findAudioFiles(dir, Tail(files))

\* ------------------------------------------------------------- inputs ---
A_WAV  == <<"a", ".", "w", "a", "v">>
A_MP3  == <<"a", ".", "M", "P", "3">>
N_TXT  == <<"n", ".", "t", "x", "t">>
A_TXT  == <<"a", ".", "t", "x", "t">>
SUB    == <<"s", "u", "b">>

\* Source trees of the full runs: one nested directory, two entries per
\* directory, files that share a base name across extensions and directories.
SourceTrees ==
  {t \in Listings({A_WAV, A_MP3, N_TXT}, {SUB}, 1, 2) :
     Len(findAudioFiles(SOURCE_DIR, t)) <= MaxAudio}

\* process.env.OPENAI_API_KEY: unset, empty, set
ApiKeys == {None, Some(""), Some("sk-test")}

\* --model, --language, --prompt, --debug as commander hands them over
ModelArgs    == {"whisper-1", "whisper-1-quantized", "large-v3", "", "constructor"}
LanguageArgs == {"auto", "en"}
PromptArgs   == {None, Some("names of people")}

\* What the transcription endpoint can answer: a body with or without text,
\* or an error (network failure, provider-side rejection, unsupported content).
ErrorMessages == {"Connection error.", "401 Incorrect API key", "400 Unsupported file format"}
Responses ==
  {[kind |-> "body", text |-> t, message |-> ""] :
      t \in {Some("hello"), Some("world"), Some(""), None}}
  \cup {[kind |-> "error", text |-> None, message |-> m] : m \in ErrorMessages}

\* -------------------------------------------------------------- state ---
VARIABLES
  apiKey,        \* process.env.OPENAI_API_KEY
  options,       \* program.opts()
  tree,          \* listing of SOURCE_DIR (nested), when it exists
  dirs,          \* directories that exist, among SOURCE_DIR and OUTPUT_DIR
  outFiles0,     \* files of OUTPUT_DIR before the run: path -> content
  outFiles,      \* files on disk below OUTPUT_DIR or written by the run
  pc,            \* position of the process
  audioFiles,    \* const audioFiles of main()
  i,             \* loop index of main(), 0-based
  successCount,  \* let successCount of main()
  transcription, \* const transcription of the loop body
  requests,      \* bodies sent to openai.audio.transcriptions.create, in order
  inflight,      \* indices of the requests not yet resolved
  results,       \* what the endpoint answered, in order
  console,       \* lines printed
  exitCode,      \* None while running, Some(status) once the process ended
  first          \* None, or Some(what an earlier run on the same inputs left)

vars == <<apiKey, options, tree, outFiles0, dirs, outFiles, pc, audioFiles, i, successCount,
          transcription, requests, inflight, results, console, exitCode, first>>

\* What no step of a run changes.
inputs == <<apiKey, options, tree, outFiles0, first>>
loopVars == <<audioFiles, i, successCount, transcription, requests, inflight, results>>

NoFiles == [p \in {} |-> ""]
OldOutput == [p \in {join(OUTPUT_DIR, A_TXT)} |-> "old"]

Init ==
  /\ apiKey \in ApiKeys
  /\ options \in [model : ModelArgs, language : LanguageArgs,
                  prompt : PromptArgs, debug : BOOLEAN]
  /\ tree \in SourceTrees
  /\ dirs \in SUBSET {SOURCE_DIR, OUTPUT_DIR}
  /\ SOURCE_DIR \notin dirs => tree = <<>>
  /\ outFiles0 \in {NoFiles, OldOutput}
  /\ OUTPUT_DIR \notin dirs => outFiles0 = NoFiles
  /\ outFiles = outFiles0
  /\ pc = "load"
  /\ audioFiles = <<>>
  /\ i = 0
  /\ successCount = 0
  /\ transcription = None
  /\ requests = <<>>
  /\ inflight = {}
  /\ results = <<>>
  /\ console = <<>>
  /\ exitCode = None
  /\ first = None

\* process.exit(code), or the process ending on an uncaught exception
Exit(code) ==
  /\ pc' = "exited"
  /\ exitCode' = Some(code)

Log(lines) == console' = console \o lines

\* The catch block of main(): print the message, exit(1).
Fatal(message) ==
  /\ Log(<< <<"An error occurred:", message>> >>
         \o IF options.debug THEN << <<"debug-error", message>> >> ELSE <<>>)
  /\ Exit(1)

\* ----------------------------------------------------------- actions ----
\* Module evaluation up to the call of main(): the client is constructed with
\* the credential; the constructor of the library may reject a missing or
\* empty key by throwing, which ends the process with status 1.
LoadModule ==
  /\ pc = "load"
  /\ \/ /\ ~Truthy(apiKey)
        /\ Log(<< <<"Uncaught", "OpenAIError">> >>)
        /\ Exit(1)
     \/ /\ pc' = "main"
        /\ UNCHANGED <<console, exitCode>>
  /\ UNCHANGED <<inputs, dirs, outFiles, loopVars>>

\* CheckApiKey with the test of the credential left out
CheckApiKey_unchecked ==
  /\ pc = "main"
  /\ pc' = "checkModel"
  /\ UNCHANGED <<console, exitCode>>
  /\ UNCHANGED <<inputs, dirs, outFiles, loopVars>>

\* if (!process.env.OPENAI_API_KEY)
CheckApiKey ==
  /\ pc = "main"
  /\ IF ~Truthy(apiKey)
       THEN /\ Log(<< <<"Error: OPENAI_API_KEY is not set in the .env file!">> >>)
            /\ Exit(1)
       ELSE /\ pc' = "checkModel"
            /\ UNCHANGED <<console, exitCode>>
  /\ UNCHANGED <<inputs, dirs, outFiles, loopVars>>

\* if (!MODELS[options.model]), then the debug information
CheckModel ==
  /\ pc = "checkModel"
  /\ IF ~Truthy(ModelsLookup(options.model))
       THEN /\ Log(<< <<"Error: Invalid model:", options.model>>,
                      <<"Available models:", DOMAIN MODELS>> >>)
            /\ Exit(1)
       ELSE /\ Log(IF options.debug
                     THEN << <<"Debug information:", options.model, options.language,
                               options.prompt, SOURCE_DIR, OUTPUT_DIR>> >>
                     ELSE <<>>)
            /\ pc' = "mkdirSource"
            /\ UNCHANGED exitCode
  /\ UNCHANGED <<inputs, dirs, outFiles, loopVars>>

\* await fsPromises.mkdir(dir, { recursive: true }): creates dir when missing,
\* or rejects, which the catch block of main() handles.
Mkdir(dir, next) ==
  \/ /\ dirs' = dirs \cup {dir}
     /\ pc' = next
     /\ UNCHANGED <<console, exitCode>>
  \/ /\ Fatal("mkdir failed")
     /\ UNCHANGED dirs

MkdirSource ==
  /\ pc = "mkdirSource"
  /\ Mkdir(SOURCE_DIR, "mkdirOutput")
  /\ UNCHANGED <<inputs, outFiles, loopVars>>

MkdirOutput ==
  /\ pc = "mkdirOutput"
  /\ Mkdir(OUTPUT_DIR, "search")
  /\ UNCHANGED <<inputs, outFiles, loopVars>>

\* const audioFiles = await findAudioFiles(SOURCE_DIR): the call is made
StartSearch ==
  /\ pc = "search"
  /\ pc' = "searching"
  /\ Log(<< <<"Searching for audio files...">> >>)
  /\ UNCHANGED <<inputs, dirs, outFiles, loopVars, exitCode>>

\* SearchReturns treating an empty result as a fatal error
SearchReturns_emptyIsError ==
  /\ pc = "searching"
  /\ \/ LET found == findAudioFiles(SOURCE_DIR, tree)
        IN /\ audioFiles' = found
           /\ IF Len(found) = 0
                THEN /\ Log(<< <<"Found", 0>>, <<"No audio files to process">> >>)
                     /\ Exit(1)
                ELSE /\ Log(<< <<"Found", Len(found)>>, <<"Starting processing...">> >>)
                     /\ pc' = "loop"
                     /\ UNCHANGED exitCode
     \/ /\ Fatal("readdir failed")
        /\ UNCHANGED audioFiles
  /\ UNCHANGED <<inputs, dirs, outFiles, i, successCount, transcription,
                 requests, inflight, results>>

\* findAudioFiles returns (or a readdir rejects); zero files end the run.
SearchReturns ==
  /\ pc = "searching"
  /\ \/ LET found == findAudioFiles(SOURCE_DIR, tree)
        IN /\ audioFiles' = found
           /\ IF Len(found) = 0
                THEN /\ Log(<< <<"Found", 0>>, <<"No audio files to process">> >>)
                     /\ Exit(0)
                ELSE /\ Log(<< <<"Found", Len(found)>>, <<"Starting processing...">> >>)
                     /\ pc' = "loop"
                     /\ UNCHANGED exitCode
     \/ /\ Fatal("readdir failed")
        /\ UNCHANGED audioFiles
  /\ UNCHANGED <<inputs, dirs, outFiles, i, successCount, transcription,
                 requests, inflight, results>>

\* The transcript put next to the audio file instead of in OUTPUT_DIR.
OutputFile_besideSource(audioFile) ==
  SubSeq(audioFile, 1, Len(audioFile) - 1)
    \o << basename(audioFile, extname(audioFile[Len(audioFile)])) \o <<".", "t", "x", "t">> >>

\* path.join(OUTPUT_DIR, `${path.basename(audioFile, path.extname(audioFile))}.txt`)
OutputFile(audioFile) ==
  join(OUTPUT_DIR,
       basename(audioFile, extname(audioFile[Len(audioFile)])) \o <<".", "t", "x", "t">>)

\* RequestBody passing the language option on as it is, 'auto' included
RequestBody_languageAsGiven(filePath, model, language, prompt) ==
  [file     |-> filePath,
   model    |-> model,
   language |-> Some(language),
   prompt   |-> prompt]

\* The argument of openai.audio.transcriptions.create in transcribeAudio; a
\* property whose value is undefined is not sent.
RequestBody(filePath, model, language, prompt) ==
  [file     |-> filePath,
   model    |-> model,
   language |-> IF language # "auto" THEN Some(language) ELSE None,
   prompt   |-> prompt]

\* What transcribeAudio returns for an answer of the endpoint: the text of the
\* body, or null from the catch block.
TranscribeResult(r) == IF r.kind = "body" THEN r.text ELSE None

\* fsPromises.writeFile(path, data): the file holds exactly data afterwards
Put(files, path, data) ==
  [p \in DOMAIN files \cup {path} |-> IF p = path THEN data ELSE files[p]]

\* ProcessNext with the call of transcribeAudio not awaited: the request is
\* sent and the loop goes straight on to the next file
ProcessNext_notAwaited ==
  /\ pc = "loop"
  /\ i < Len(audioFiles)
  /\ LET audioFile == audioFiles[i + 1]
     IN /\ requests' = Append(requests, RequestBody(audioFile, options.model,
                                                    options.language, options.prompt))
        /\ Log(<< <<"Processing", i + 1, Len(audioFiles), relative(SOURCE_DIR, audioFile)>> >>)
  /\ inflight' = inflight \cup {i}
  /\ i' = i + 1
  /\ UNCHANGED <<inputs, dirs, outFiles, pc, audioFiles, successCount, transcription,
                 results, exitCode>>

\* ProcessNext taking the files from the end of the list.
ProcessNext_reversed ==
  /\ pc = "loop"
  /\ i < Len(audioFiles)
  /\ LET audioFile == audioFiles[Len(audioFiles) - i]
     IN /\ requests' = Append(requests, RequestBody(audioFile, options.model,
                                                    options.language, options.prompt))
        /\ Log(<< <<"Processing", i + 1, Len(audioFiles), relative(SOURCE_DIR, audioFile)>> >>)
  /\ inflight' = inflight \cup {i}
  /\ pc' = "transcribing"
  /\ UNCHANGED <<inputs, dirs, outFiles, audioFiles, i, successCount, transcription,
                 results, exitCode>>

\* Loop head with i < audioFiles.length: transcribeAudio is called and sends
\* the request; main() is suspended on the await.
ProcessNext ==
  /\ pc = "loop"
  /\ i < Len(audioFiles)
  /\ LET audioFile == audioFiles[i + 1]
     IN /\ requests' = Append(requests, RequestBody(audioFile, options.model,
                                                    options.language, options.prompt))
        /\ Log(<< <<"Processing", i + 1, Len(audioFiles), relative(SOURCE_DIR, audioFile)>> >>)
  /\ inflight' = inflight \cup {i}
  /\ pc' = "transcribing"
  /\ UNCHANGED <<inputs, dirs, outFiles, audioFiles, i, successCount, transcription,
                 results, exitCode>>

\* TranscribeReturns without the try/catch of transcribeAudio: a rejected
\* request reaches the catch block of main()
TranscribeReturns_uncaught ==
  /\ pc = "transcribing"
  /\ \E r \in Responses :
       LET audioFile == audioFiles[i + 1]
           text      == TranscribeResult(r)
       IN /\ results' = Append(results, r)
          /\ transcription' = text
          /\ IF r.kind = "error"
               THEN /\ Fatal(r.message)
                    /\ UNCHANGED i
               ELSE IF Truthy(text)
                 THEN /\ pc' = "writing"
                      /\ UNCHANGED <<i, console, exitCode>>
                 ELSE /\ pc' = "loop"
                      /\ Log(<< <<"Failed to create transcript:",
                                  relative(SOURCE_DIR, audioFile)>> >>)
                      /\ i' = i + 1
                      /\ UNCHANGED exitCode
  /\ inflight' = inflight \ {i}
  /\ UNCHANGED <<inputs, dirs, outFiles, audioFiles, successCount, requests>>

\* TranscribeReturns trying a failed file again instead of moving on
TranscribeReturns_retry ==
  /\ pc = "transcribing"
  /\ \E r \in Responses :
       LET text == TranscribeResult(r)
       IN /\ results' = Append(results, r)
          /\ transcription' = text
          /\ pc' = IF Truthy(text) THEN "writing" ELSE "loop"
  /\ inflight' = inflight \ {i}
  /\ UNCHANGED <<inputs, dirs, outFiles, audioFiles, i, successCount, requests,
                 console, exitCode>>

\* The request resolves or rejects; transcribeAudio returns text or null and
\* main() either starts writing the output file or records the failure.
\* As TranscribeReturns, except that with --debug an API error is thrown on
\* after it is printed, so that it ends the run.
TranscribeReturns_debugRethrows ==
  /\ pc = "transcribing"
  /\ \E r \in Responses :
       LET audioFile == audioFiles[i + 1]
           text      == TranscribeResult(r)
           errors    == IF r.kind = "error"
                          THEN << <<"Error transcribing", basename(audioFile, <<>>), r.message>> >>
                               \o IF options.debug THEN << <<"debug-error", r.message>> >>
                                                   ELSE <<>>
                          ELSE <<>>
       IN /\ results' = Append(results, r)
          /\ transcription' = text
          /\ IF Truthy(text)
               THEN /\ pc' = "writing"
                    /\ Log(errors)
                    /\ UNCHANGED <<i, exitCode>>
               ELSE IF r.kind = "error" /\ options.debug
                 THEN /\ Log(errors \o << <<"An error occurred:", r.message>> >>)
                      /\ Exit(1)
                      /\ UNCHANGED i
                 ELSE /\ pc' = "loop"
                      /\ Log(errors \o << <<"Failed to create transcript:",
                                            relative(SOURCE_DIR, audioFile)>> >>)
                      /\ i' = i + 1
                      /\ UNCHANGED exitCode
  /\ inflight' = inflight \ {i}
  /\ UNCHANGED <<inputs, dirs, outFiles, audioFiles, successCount, requests>>

TranscribeReturns ==
  /\ pc = "transcribing"
  /\ \E r \in Responses :
       LET audioFile == audioFiles[i + 1]
           text      == TranscribeResult(r)
           errors    == IF r.kind = "error"
                          THEN << <<"Error transcribing", basename(audioFile, <<>>), r.message>> >>
                               \o IF options.debug THEN << <<"debug-error", r.message>> >>
                                                   ELSE <<>>
                          ELSE <<>>
       IN /\ results' = Append(results, r)
          /\ transcription' = text
          /\ IF Truthy(text)
               THEN /\ pc' = "writing"
                    /\ Log(errors)
                    /\ UNCHANGED i
               ELSE /\ pc' = "loop"
                    /\ Log(errors \o << <<"Failed to create transcript:",
                                          relative(SOURCE_DIR, audioFile)>> >>)
                    /\ i' = i + 1
  /\ inflight' = inflight \ {i}
  /\ UNCHANGED <<inputs, dirs, outFiles, audioFiles, successCount, requests, exitCode>>

\* WriteReturns with a rejected write caught inside the loop: the file is
\* reported as failed and the loop goes on.
WriteReturns_caught ==
  /\ pc = "writing"
  /\ LET outputFile == OutputFile(audioFiles[i + 1])
     IN \/ /\ outFiles' = Put(outFiles, outputFile, transcription[1])
           /\ Log(<< <<"Transcript completed:", basename(outputFile, <<>>)>> >>)
           /\ successCount' = successCount + 1
        \/ /\ outFiles' \in {outFiles, Put(outFiles, outputFile, "")}
           /\ Log(<< <<"An error occurred:", "write failed">> >>)
           /\ UNCHANGED successCount
  /\ i' = i + 1
  /\ pc' = "loop"
  /\ UNCHANGED <<inputs, dirs, audioFiles, transcription, requests, inflight, results,
                 exitCode>>

\* WriteReturns with the loop index left where it was after a write.
WriteReturns_noAdvance ==
  /\ pc = "writing"
  /\ LET outputFile == OutputFile(audioFiles[i + 1])
     IN \/ /\ outFiles' = Put(outFiles, outputFile, transcription[1])
           /\ Log(<< <<"Transcript completed:", basename(outputFile, <<>>)>> >>)
           /\ successCount' = successCount + 1
           /\ pc' = "loop"
           /\ UNCHANGED <<i, exitCode>>
        \/ /\ outFiles' \in {outFiles, Put(outFiles, outputFile, "")}
           /\ Fatal("write failed")
           /\ UNCHANGED <<i, successCount>>
  /\ UNCHANGED <<inputs, dirs, audioFiles, transcription, requests, inflight, results>>

\* await fsPromises.writeFile(outputFile, transcription, 'utf-8') returns, or
\* rejects with the file untouched or left truncated.
WriteReturns ==
  /\ pc = "writing"
  /\ LET outputFile == OutputFile(audioFiles[i + 1])
     IN \/ /\ outFiles' = Put(outFiles, outputFile, transcription[1])
           /\ Log(<< <<"Transcript completed:", basename(outputFile, <<>>)>> >>)
           /\ successCount' = successCount + 1
           /\ i' = i + 1
           /\ pc' = "loop"
           /\ UNCHANGED exitCode
        \/ /\ outFiles' \in {outFiles, Put(outFiles, outputFile, "")}
           /\ Fatal("write failed")
           /\ UNCHANGED <<i, successCount>>
  /\ UNCHANGED <<inputs, dirs, audioFiles, transcription, requests, inflight, results>>

\* Summarize ending the process with status 1 when a file failed
Summarize_failureStatus ==
  /\ pc = "loop"
  /\ i >= Len(audioFiles)
  /\ Log(<< <<"Total files:", Len(audioFiles)>>, <<"Successful:", successCount>> >>
         \o IF successCount < Len(audioFiles)
              THEN << <<"Failed:", Len(audioFiles) - successCount>> >>
              ELSE <<>>)
  /\ pc' = "done"
  /\ exitCode' = IF successCount < Len(audioFiles) THEN Some(1) ELSE Some(0)
  /\ UNCHANGED <<inputs, dirs, outFiles, loopVars>>

\* Loop left: the summary is printed, main() returns and the process ends.
Summarize ==
  /\ pc = "loop"
  /\ i >= Len(audioFiles)
  /\ Log(<< <<"Total files:", Len(audioFiles)>>, <<"Successful:", successCount>> >>
         \o IF successCount < Len(audioFiles)
              THEN << <<"Failed:", Len(audioFiles) - successCount>> >>
              ELSE <<>>)
  /\ pc' = "done"
  /\ exitCode' = Some(0)
  /\ UNCHANGED <<inputs, dirs, outFiles, loopVars>>

Next ==
  \/ LoadModule
  \/ CheckApiKey
  \/ CheckModel
  \/ MkdirSource
  \/ MkdirOutput
  \/ StartSearch
  \/ SearchReturns
  \/ ProcessNext
  \/ TranscribeReturns
  \/ WriteReturns
  \/ Summarize

Spec == Init /\ [][Next]_vars

\* Node runs main() to its end: a continuation that can run does run, and
\* every awaited call (mkdir, readdir, the endpoint, writeFile) settles.
\* The language and the prompt go into the request and nowhere else, and the
\* model is looked at once, so runs are taken with one language, no prompt
\* and one valid and one invalid model.
InitFair ==
  /\ Init
  /\ options.model \in {"whisper-1", "large-v3"}
  /\ options.language = "en"
  /\ options.prompt = None

FairSpec == InitFair /\ [][Next]_vars /\ WF_vars(Next)

\* --------------------------------------------- findAudioFiles on its own --
B_WAV == <<"B", ".", "W", "A", "V">>
D_WAV == <<"d", ".", "w", "a", "v">>

\* File names that exercise the extension test: every supported format, upper
\* and mixed case, other and missing extensions, a dot file, a trailing dot.
NameVariants ==
  { <<"a", ".", "m", "p", "3">>, <<"a", ".", "m", "p", "4">>,
    <<"a", ".", "m", "p", "e", "g">>, <<"a", ".", "m", "p", "g", "a">>,
    <<"a", ".", "m", "4", "a">>, <<"a", ".", "w", "a", "v">>,
    <<"a", ".", "w", "e", "b", "m">>, <<"a", ".", "M", "p", "3">>,
    <<"a", ".", "W", "E", "B", "M">>, <<"a", ".", "t", "x", "t">>,
    <<"a">>, <<"a", ".", "m", "p", "3", "x">>, <<".", "m", "p", "3">>,
    <<"a", ".", "w", "a", "v", ".">>, <<"a", ".", "w", "a", "v", ".", "t", "x", "t">>,
    <<"m", "p", "3">> }

\* Trees over one name variant, an upper-case audio file and a directory whose
\* own name ends in an audio extension.
FindTrees ==
  UNION {Listings({v, B_WAV}, {D_WAV}, MaxDepth, MaxEntries) : v \in NameVariants}

InitFind ==
  /\ apiKey = Some("sk-test")
  /\ options = [model |-> "whisper-1", language |-> "auto", prompt |-> None, debug |-> FALSE]
  /\ tree \in FindTrees
  /\ dirs = {SOURCE_DIR, OUTPUT_DIR}
  /\ outFiles0 = NoFiles
  /\ outFiles = NoFiles
  /\ pc = "searching"
  /\ audioFiles = <<>>
  /\ i = 0
  /\ successCount = 0
  /\ transcription = None
  /\ requests = <<>>
  /\ inflight = {}
  /\ results = <<>>
  /\ console = <<>>
  /\ exitCode = None
  /\ first = None

\* The call findAudioFiles(SOURCE_DIR) alone, with every readdir succeeding.
FindReturns ==
  /\ pc = "searching"
  /\ audioFiles' = findAudioFiles(SOURCE_DIR, tree)
  /\ pc' = "found"
  /\ UNCHANGED <<inputs, dirs, outFiles, i, successCount, transcription, requests,
                 inflight, results, console, exitCode>>

NextFind == FindReturns

SpecFind == InitFind /\ [][NextFind]_vars

\* ------------------------------------------- two runs on the same inputs --
\* The program is run, then run again with the same credential, model,
\* language, prompt, source tree and output directory and with --debug the
\* other way round; in the second run the endpoint and the file system answer
\* as they did in the first.

IsPrefix(s, t) == Len(s) <= Len(t) /\ SubSeq(t, 1, Len(s)) = s

HasLine(lines, l) == \E k \in 1..Len(lines) : lines[k] = l

\* The directories that exist before a run, given the output files there are.
InitialDirs(out0) ==
  IF out0 = NoFiles THEN {SOURCE_DIR} ELSE {SOURCE_DIR, OUTPUT_DIR}

InitTwice ==
  /\ apiKey \in ApiKeys
  /\ options \in [model : {"whisper-1", "large-v3"}, language : {"en"},
                  prompt : {None}, debug : BOOLEAN]
  /\ tree \in SourceTrees
  /\ outFiles0 \in {NoFiles, OldOutput}
  /\ dirs = InitialDirs(outFiles0)
  /\ outFiles = outFiles0
  /\ pc = "load"
  /\ audioFiles = <<>>
  /\ i = 0
  /\ successCount = 0
  /\ transcription = None
  /\ requests = <<>>
  /\ inflight = {}
  /\ results = <<>>
  /\ console = <<>>
  /\ exitCode = None
  /\ first = None

\* The process has ended; it is started again on the same inputs, --debug
\* switched, and what the first run left is kept for comparison.
RunAgain ==
  /\ first = None
  /\ exitCode # None
  /\ first' = Some([console |-> console, requests |-> requests, results |-> results,
                    outFiles |-> outFiles, exitCode |-> exitCode,
                    successCount |-> successCount])
  /\ options' = [options EXCEPT !.debug = ~options.debug]
  /\ dirs' = InitialDirs(outFiles0)
  /\ outFiles' = outFiles0
  /\ pc' = "load"
  /\ audioFiles' = <<>>
  /\ i' = 0
  /\ successCount' = 0
  /\ transcription' = None
  /\ requests' = <<>>
  /\ inflight' = {}
  /\ results' = <<>>
  /\ console' = <<>>
  /\ exitCode' = None
  /\ UNCHANGED <<apiKey, tree, outFiles0>>

Threw(lines) == HasLine(lines, <<"Uncaught", "OpenAIError">>)
Fault(lines, m) == HasLine(lines, <<"An error occurred:", m>>)
Truncated(files) == \E p \in DOMAIN files : files[p] = ""

\* The surroundings of a step: mkdir of the source directory, which exists,
\* succeeds; in the second run the client constructor, mkdir, readdir, the
\* endpoint and writeFile behave as they did in the first run.
Replay ==
  /\ pc = "mkdirSource" => ~Fault(console', "mkdir failed")
  /\ first # None =>
       LET f == first[1]
       IN /\ IsPrefix(results', f.results)
          /\ pc = "load" => (Threw(console') <=> Threw(f.console))
          /\ pc = "mkdirOutput" =>
               (Fault(console', "mkdir failed") <=> Fault(f.console, "mkdir failed"))
          /\ pc = "searching" =>
               (Fault(console', "readdir failed") <=> Fault(f.console, "readdir failed"))
          /\ pc = "writing" =>
               /\ Fault(console', "write failed") <=>
                    (Fault(f.console, "write failed") /\ Len(results) = Len(f.results))
               /\ Fault(console', "write failed") =>
                    (Truncated(outFiles') <=> Truncated(f.outFiles))

NextTwice ==
  \/ LoadModule /\ Replay
  \/ CheckApiKey /\ Replay
  \/ CheckModel /\ Replay
  \/ MkdirSource /\ Replay
  \/ MkdirOutput /\ Replay
  \/ StartSearch /\ Replay
  \/ SearchReturns /\ Replay
  \/ ProcessNext /\ Replay
  \/ TranscribeReturns /\ Replay
  \/ WriteReturns /\ Replay
  \/ Summarize /\ Replay
  \/ RunAgain

SpecTwice == InitTwice /\ [][NextTwice]_vars

\* ================================================================ claims ==

\* ------------------------------------------------------------------ C9 ---
RECURSIVE EntriesUnder(_, _)
\* Every entry of the tree below dir, at every depth, as <<path, kind>>.
EntriesUnder(dir, listing) ==
  UNION {{<<join(dir, listing[k].name), listing[k].kind>>}
           \cup IF listing[k].kind = "dir"
                  THEN EntriesUnder(join(dir, listing[k].name), listing[k].children)
                  ELSE {}
         : k \in 1..Len(listing)}

ClaimedFormats ==
  { <<".", "m", "p", "3">>, <<".", "m", "p", "4">>, <<".", "m", "p", "e", "g">>,
    <<".", "m", "p", "g", "a">>, <<".", "m", "4", "a">>, <<".", "w", "a", "v">>,
    <<".", "w", "e", "b", "m">> }

\* The name is a non-empty stem followed by one of the claimed extensions, in
\* any letter case.
HasClaimedExtension(name) ==
  \E e \in ClaimedFormats : Len(name) > Len(e) /\ EndsWith(toLowerCase(name), e)

MatchingFiles(root, listing) ==
  {e[1] : e \in {x \in EntriesUnder(root, listing) :
                   x[2] = "file" /\ HasClaimedExtension(x[1][Len(x[1])])}}

\* C9: findAudioFiles(root) returns exactly the files of the tree under root,
\* at every depth, whose lowercased extension is a supported format: each of
\* them once, none of the others, independent of letter case; an empty
\* result is a normal return.
C9_FindReturnsExactlyTheAudioFiles ==
  pc = "found" =>
    /\ {audioFiles[k] : k \in 1..Len(audioFiles)} = MatchingFiles(SOURCE_DIR, tree)
    /\ Len(audioFiles) = Cardinality(MatchingFiles(SOURCE_DIR, tree))

\* A nested upper-case match is returned next to a match at the top, while the
\* tree also holds a file that is left out.
C9_Witness ==
  /\ pc = "found"
  /\ \E k \in 1..Len(audioFiles) : audioFiles[k] = <<SOURCE_DIR[1], D_WAV, B_WAV>>
  /\ \E k \in 1..Len(audioFiles) : Len(audioFiles[k]) = 2
  /\ \E x \in EntriesUnder(SOURCE_DIR, tree) :
       x[2] = "file" /\ ~includes(audioFiles, x[1])

\* ------------------------------------------------------------------ C3 ---
\* C3: with OPENAI_API_KEY absent or empty the run ends with a non-zero exit
\* status before any directory is created, before findAudioFiles is called
\* and before any transcription request; no output file is written.
C3_MissingKeyStopsBeforeAnyWork ==
  /\ [](~Truthy(apiKey) =>
          /\ pc \in {"load", "main", "exited"}
          /\ pc = "exited" => exitCode = Some(1)
          /\ pc # "exited" => exitCode = None
          /\ requests = <<>>
          /\ audioFiles = <<>>)
  /\ [][~Truthy(apiKey) =>
          /\ dirs' = dirs
          /\ outFiles' = outFiles
          /\ pc = "main" => pc' = "exited" /\ exitCode' = Some(1)]_vars

\* main() itself refuses an empty key although the source tree holds audio.
C3_Witness ==
  /\ apiKey = Some("")
  /\ pc = "exited"
  /\ exitCode = Some(1)
  /\ console = << <<"Error: OPENAI_API_KEY is not set in the .env file!">> >>
  /\ findAudioFiles(SOURCE_DIR, tree) # <<>>
  /\ dirs = {SOURCE_DIR}
  /\ outFiles = NoFiles

\* ------------------------------------------------------------------ C4 ---
KnownModelIds == {"whisper-1", "whisper-1-quantized"}

\* C4: for every --model value other than 'whisper-1' and
\* 'whisper-1-quantized' the run ends with a non-zero exit status before any
\* discovery attempt, after printing the known identifiers; discovery starts
\* only when the requested model is one of the two.
C4_UnknownModelStopsBeforeDiscovery ==
  options.model \notin KnownModelIds =>
    /\ pc \notin {"searching", "loop", "transcribing", "writing", "done"}
    /\ audioFiles = <<>>
    /\ requests = <<>>
    /\ (\E k \in 1..Len(console) : console[k][1] = "Error: Invalid model:") =>
         /\ console[Len(console)] = <<"Available models:", KnownModelIds>>
         /\ exitCode = Some(1)

\* ----------------------------------------------------------------- C10 ---
\* C10: every request carries no language parameter when the language option
\* is 'auto' and exactly the option's value otherwise; the model and the
\* prompt, absent or not, are those of the options.
C10_LanguageModelPromptPassedThrough ==
  \A k \in 1..Len(requests) :
    /\ options.language = "auto" => requests[k].language = None
    /\ options.language # "auto" => requests[k].language = Some(options.language)
    /\ requests[k].model = options.model
    /\ requests[k].prompt = options.prompt

\* Two requests were sent under --language auto with a prompt.
C10_Witness ==
  /\ options.language = "auto"
  /\ options.prompt # None
  /\ Len(requests) = 2
  /\ requests[2].language = None

\* ------------------------------------------------- helpers of C1..C8 -----
\* The lines of the console that begin with tag.
LinesTagged(tag) == SelectSeq(console, LAMBDA l : l[1] = tag)

\* One line per file whose outcome main() recorded: spinner.succeed after the
\* write, spinner.fail after a null transcription.
Outcomes ==
  SelectSeq(console,
            LAMBDA l : l[1] \in {"Transcript completed:", "Failed to create transcript:"})

\* The endpoint returned text for the file.
Succeeded(r) == r.kind = "body" /\ r.text # None /\ r.text # Some("")

SucceededFiles == {k \in 1..Len(results) : Succeeded(results[k])}
ErrorFiles == {k \in 1..Len(results) : results[k].kind = "error"}

\* The files the run created or changed.
WrittenFiles ==
  {p \in DOMAIN outFiles : p \notin DOMAIN outFiles0 \/ outFiles[p] # outFiles0[p]}

\* <base name of f without its extension>.txt in the output directory
ClaimedOutput(f) ==
  LET name == f[Len(f)]
  IN <<OUTPUT_DIR[1], SubSeq(name, 1, LastDot(name) - 1) \o <<".", "t", "x", "t">> >>

\* ------------------------------------------------------------------ C1 ---
\* C1: a run that discovers K files of which S transcriptions succeed and
\* K-S fail ends with a summary of total = K, succeeded = S, failed = K-S, and
\* with exactly S .txt files in the output directory, which was empty.
C1_SummaryAndOutputCount ==
  (pc = "done" /\ outFiles0 = NoFiles) =>
    LET K == Len(audioFiles)
        S == Cardinality(SucceededFiles)
    IN /\ LinesTagged("Total files:") = << <<"Total files:", K>> >>
       /\ LinesTagged("Successful:") = << <<"Successful:", S>> >>
       /\ LinesTagged("Failed:") =
            IF K - S > 0 THEN << <<"Failed:", K - S>> >> ELSE <<>>
       /\ Cardinality({p \in DOMAIN outFiles :
                         /\ Len(p) = 2
                         /\ p[1] = OUTPUT_DIR[1]
                         /\ EndsWith(p[2], <<".", "t", "x", "t">>)}) = S

\* ------------------------------------------------------------------ C6 ---
\* C6: at the end of a completed run every input whose transcription
\* succeeded has <base name>.txt in the output directory holding exactly the
\* text returned for it, no input whose transcription failed has an output
\* file created, and the files written are as many as the succeeded inputs.
C6_OutputPerSucceededInput ==
  pc = "done" =>
    /\ \A k \in SucceededFiles :
         /\ ClaimedOutput(audioFiles[k]) \in DOMAIN outFiles
         /\ outFiles[ClaimedOutput(audioFiles[k])] = results[k].text[1]
    /\ \A k \in 1..Len(results) :
         ~Succeeded(results[k]) => ClaimedOutput(audioFiles[k]) \notin WrittenFiles
    /\ Cardinality(WrittenFiles) = Cardinality(SucceededFiles)

\* ------------------------------------------------------------------ C7 ---
FatalErrorReported ==
  \/ ~Truthy(apiKey)
  \/ LinesTagged("Error: Invalid model:") # <<>>
  \/ \E k \in 1..Len(console) :
       console[k] \in {<<"An error occurred:", m>> :
                         m \in {"mkdir failed", "readdir failed", "write failed"}}

\* C7: the exit status is 0 for every run that completes the loop, whatever
\* the outcomes of the files, and for a run with no input file; it is
\* non-zero only after a fatal error: missing credential, invalid model, or
\* an I/O failure on the source or output directory.
C7_ExitStatus ==
  /\ pc = "done" => exitCode = Some(0)
  /\ (pc = "exited" /\ LinesTagged("No audio files to process") # <<>>) =>
       exitCode = Some(0)
  /\ exitCode \notin {None, Some(0)} => pc = "exited" /\ FatalErrorReported
  /\ (pc = "exited" /\ exitCode = Some(1) /\ Len(results) > 0) =>
       console[Len(console) - (IF options.debug THEN 1 ELSE 0)]
         = <<"An error occurred:", "write failed">>

\* Both files of a run failed and the process still ended with status 0.
C7_Witness ==
  /\ pc = "done"
  /\ exitCode = Some(0)
  /\ Len(audioFiles) = 2
  /\ ErrorFiles = {1, 2}
  /\ successCount = 0

\* ------------------------------------------------------------------ C8 ---
\* C8: at most one transcription request is in flight; a request is sent
\* only when the one before has resolved and its outcome is recorded, and
\* only after findAudioFiles has returned the complete list.
C8_OneRequestAtATime ==
  /\ [](/\ Cardinality(inflight) <= 1
        /\ inflight # {} => pc = "transcribing"
        /\ Len(requests) - Len(results) = Cardinality(inflight)
        /\ pc \in {"load", "main", "checkModel", "mkdirSource", "mkdirOutput",
                   "search", "searching"} => requests = <<>>)
  /\ [][Len(requests') > Len(requests) =>
          /\ inflight = {}
          /\ Len(results) = Len(requests)
          /\ Len(Outcomes) = Len(requests)
          /\ audioFiles = findAudioFiles(SOURCE_DIR, tree)
          /\ Len(requests') = Len(requests) + 1]_vars

\* The second request is in flight, the first one resolved and recorded.
C8_Witness ==
  /\ pc = "transcribing"
  /\ Len(requests) = 2
  /\ inflight = {1}
  /\ Len(Outcomes) = 1

\* ------------------------------------------------------------------ C2 ---
WriteFailureReported ==
  \E k \in 1..Len(console) : console[k] = <<"An error occurred:", "write failed">>

SummaryPrinted == LinesTagged("Total files:") # <<>>

\* C2 as stated: once the endpoint has failed for a file, the run always
\* goes on to request every later file and reaches the summary.
C2_FailureNeverStopsLaterFiles ==
  (exitCode # None /\ ErrorFiles # {}) =>
    /\ pc = "done"
    /\ Len(requests) = Len(audioFiles)
    /\ SummaryPrinted

\* C2: a failure of the endpoint for file i is caught, file i is counted as
\* failed and the loop goes on to the next file; every later file is
\* requested and the summary is reached, unless writing the output file of a
\* later file fails, which aborts the run.
C2_FailureIsCaughtAndLoopContinues ==
  /\ [][(Len(results') = Len(results) + 1 /\ results'[Len(results')].kind = "error") =>
          /\ pc' = "loop"
          /\ i' = i + 1
          /\ exitCode' = None
          /\ successCount' = successCount
          /\ outFiles' = outFiles
          /\ console'[Len(console')][1] = "Failed to create transcript:"
          /\ inflight' = {}]_vars
  /\ []((exitCode # None /\ ErrorFiles # {}) =>
          \/ /\ pc = "done"
             /\ exitCode = Some(0)
             /\ Len(requests) = Len(audioFiles)
             /\ SummaryPrinted
             /\ Len(audioFiles) - successCount >= Cardinality(ErrorFiles)
          \/ /\ pc = "exited"
             /\ WriteFailureReported
             /\ Succeeded(results[Len(results)]))

\* The first file failed at the endpoint, the second one was transcribed and
\* the summary was reached.
C2_Witness ==
  /\ pc = "done"
  /\ Len(results) = 2
  /\ results[1].kind = "error"
  /\ Succeeded(results[2])
  /\ successCount = 1
  /\ LinesTagged("Failed:") = << <<"Failed:", 1>> >>

\* ------------------------------------------------------------------ C5 ---
RequestsFor(k) == {n \in 1..Len(requests) : requests[n].file = audioFiles[k]}

\* C5 as stated: in every run that has ended, each discovered file has
\* exactly one request and one outcome, none is skipped.
C5_ExactlyOneRequestAndOutcomeEach ==
  (exitCode # None /\ audioFiles # <<>>) =>
    /\ \A k \in 1..Len(audioFiles) : Cardinality(RequestsFor(k)) = 1
    /\ Len(Outcomes) = Len(audioFiles)

\* C5: no discovered file is ever requested twice and requests follow the
\* discovered list; in every run that reaches the summary each discovered
\* file has exactly one request and exactly one outcome and the outcomes are
\* as many as the discovered files.  (A run aborted by a failed write of an
\* output file leaves the files after it without request.)
C5_AtMostOnceAndExactlyOnceAtSummary ==
  /\ Len(requests) <= Len(audioFiles)
  /\ \A n \in 1..Len(requests) : requests[n].file = audioFiles[n]
  /\ \A k \in 1..Len(audioFiles) : Cardinality(RequestsFor(k)) <= 1
  /\ Len(Outcomes) <= Len(results)
  /\ Len(results) <= Len(requests)
  /\ pc = "done" =>
       /\ \A k \in 1..Len(audioFiles) : Cardinality(RequestsFor(k)) = 1
       /\ Len(results) = Len(audioFiles)
       /\ Len(Outcomes) = Len(audioFiles)

\* A completed run over two files, one failed and one transcribed.
C5_Witness ==
  /\ pc = "done"
  /\ Len(audioFiles) = 2
  /\ Len(requests) = 2
  /\ Cardinality(ErrorFiles) = 1
  /\ Cardinality(SucceededFiles) = 1

\* ----------------------------------------------------------------- C11 ---
\* Discovery has returned and found no audio file.
ZeroFilesFound == LinesTagged("Found") # <<>> /\ audioFiles = <<>>

\* C11 as stated: when discovery returns zero files the run prints the
\* summary with total = 0, exits with status 0, sends no request and writes
\* no output file.
C11_ZeroFilesSummaryOfZero ==
  ZeroFilesFound =>
    /\ LinesTagged("Total files:") = << <<"Total files:", 0>> >>
    /\ exitCode = Some(0)
    /\ requests = <<>>
    /\ outFiles = outFiles0

\* C11: when discovery returns zero files the run reports that 0 audio files
\* were found and that there is nothing to process, prints no summary of
\* total / successful / failed, exits with status 0, sends no request and
\* writes no output file.
C11_ZeroFilesReportedAndExitZero ==
  ZeroFilesFound =>
    /\ pc = "exited"
    /\ exitCode = Some(0)
    /\ LinesTagged("Found") = << <<"Found", 0>> >>
    /\ console[Len(console)] = <<"No audio files to process">>
    /\ ~SummaryPrinted
    /\ requests = <<>>
    /\ results = <<>>
    /\ outFiles = outFiles0

\* The source directory holds a text file only, next to an earlier output.
C11_Witness ==
  /\ ZeroFilesFound
  /\ tree = <<FileEnt(N_TXT)>>
  /\ outFiles0 = OldOutput
  /\ exitCode = Some(0)

\* ------------------------------------------------------------------- C12 --
\* What --debug adds to the console: the configuration block and the detail
\* printed under a reported error.
DebugOnly == {"Debug information:", "debug-error"}

EraseDebug(lines) == SelectSeq(lines, LAMBDA l : l[1] \notin DebugOnly)

\* Where the second run waits for an answer that the first run's record
\* decides: the client constructor, mkdir of the output directory, the
\* endpoint, writeFile.
AnsweredSteps == {"load", "mkdirOutput", "transcribing", "writing"}

\* The second of two runs that differ only in --debug has ended.
SecondRunEnded == first # None /\ exitCode # None

\* C12: --debug changes what is printed and nothing else. Of two runs on the
\* same inputs and with the same answers from the endpoint and the file
\* system, one with --debug and one without, the second follows the first
\* step for step: its requests, its results and its console without the
\* debug-only lines are at every moment a beginning of the first run's, and
\* where it waits for an answer, the answer the first run got lets it go on.
\* It ends with the same requests, the same output files, the same counts and
\* the same exit status.
C12_DebugDoesNotChangeControlFlow ==
  first # None =>
    LET f == first[1]
    IN /\ IsPrefix(requests, f.requests)
       /\ IsPrefix(results, f.results)
       /\ IsPrefix(EraseDebug(console), EraseDebug(f.console))
       /\ pc \in AnsweredSteps => ENABLED NextTwice
       /\ exitCode # None =>
            /\ requests = f.requests
            /\ results = f.results
            /\ outFiles = f.outFiles
            /\ successCount = f.successCount
            /\ exitCode = f.exitCode
            /\ EraseDebug(console) = EraseDebug(f.console)

\* A run without --debug, then the same run with it: an API error was caught
\* and its detail printed, a later file was still requested, and the consoles
\* of the two runs differ.
C12_Witness ==
  /\ SecondRunEnded
  /\ options.debug
  /\ ErrorFiles # {}
  /\ 1 \in ErrorFiles
  /\ Len(requests) = 2
  /\ HasLine(console, <<"debug-error", "Connection error.">>)
  /\ console # first[1].console
  /\ SummaryPrinted

\* ------------------------------------------------------------------- C13 --
\* Position of file f in the list findAudioFiles returned (0 if absent).
PositionOf(f) ==
  LET found == findAudioFiles(SOURCE_DIR, tree)
      at    == {n \in 1..Len(found) : found[n] = f}
  IN IF at = {} THEN 0 ELSE CHOOSE n \in at : TRUE

\* C13: requests are issued in the order in which findAudioFiles returned the
\* files: the request issued n-th is for the n-th file of the list, and when
\* it is issued every request before it has resolved and the iteration of its
\* file is over (nothing in flight, no write pending, its outcome reported).
C13_RequestsInDiscoveryOrder ==
  /\ [](\A m, n \in 1..Len(requests) :
          m < n => /\ PositionOf(requests[m].file) > 0
                   /\ PositionOf(requests[m].file) < PositionOf(requests[n].file))
  /\ [][requests' # requests =>
          LET n == Len(requests) + 1
          IN /\ requests' = Append(requests, requests'[n])
             /\ requests'[n].file = findAudioFiles(SOURCE_DIR, tree)[n]
             /\ pc = "loop"
             /\ i = n - 1
             /\ \A k \in 1..(n - 1) : k \in DOMAIN results
             /\ Len(results) = n - 1
             /\ Len(Outcomes) = n - 1]_vars

\* Two files in different directories: the one found first was requested and
\* failed, then the second was requested.
C13_Witness ==
  /\ Len(requests) = 2
  /\ Len(results) = 1
  /\ results[1].kind = "error"
  /\ requests[1].file = findAudioFiles(SOURCE_DIR, tree)[1]
  /\ requests[2].file = findAudioFiles(SOURCE_DIR, tree)[2]
  /\ Len(requests[1].file) # Len(requests[2].file)

\* ------------------------------------------------------------------- C14 --
\* The files the endpoint answered without error but with empty or no text.
EmptyFiles == {k \in 1..Len(results) : results[k].kind = "body" /\ ~Succeeded(results[k])}

\* C14 as stated: once a file's iteration is over, the file is counted as
\* succeeded and has its output file if and only if transcribeAudio returned
\* a non-empty string for it.
C14_CountedAndWrittenIffNonEmpty ==
  pc \in {"loop", "done", "exited"} =>
    /\ successCount = Cardinality(SucceededFiles)
    /\ Len(LinesTagged("Transcript completed:")) = Cardinality(SucceededFiles)
    /\ \A k \in SucceededFiles : ClaimedOutput(audioFiles[k]) \in DOMAIN outFiles

\* C14: a write is attempted for a file exactly when transcribeAudio returned
\* a non-empty string, and the file is counted exactly when that write
\* succeeded; an answer with empty or missing text is handled as an API error
\* is: nothing is written, successCount stays, the file is reported as failed
\* and the loop goes on.  At the summary the count is the number of files
\* with a non-empty answer.
C14_WrittenAndCountedOnlyForNonEmptyText ==
  /\ [](/\ successCount = Len(LinesTagged("Transcript completed:"))
        /\ successCount <= Cardinality(SucceededFiles)
        /\ pc \in {"loop", "done"} => successCount = Cardinality(SucceededFiles)
        /\ (pc = "exited" /\ results # <<>>) =>
             successCount = Cardinality(SucceededFiles) - 1
        /\ pc = "writing" => Succeeded(results[i + 1]))
  /\ [][/\ results' # results =>
             LET r == results'[Len(results')]
             IN /\ Succeeded(r) <=> pc' = "writing"
                /\ ~Succeeded(r) =>
                     /\ pc' = "loop"
                     /\ i' = i + 1
                     /\ console'[Len(console')][1] = "Failed to create transcript:"
                /\ outFiles' = outFiles
                /\ successCount' = successCount
        /\ successCount' # successCount =>
             /\ pc = "writing"
             /\ successCount' = successCount + 1
             /\ outFiles' = Put(outFiles, OutputFile(audioFiles[i + 1]), results[i + 1].text[1])
        /\ outFiles' # outFiles => pc = "writing"]_vars

\* A completed run over two files, both answered without error, one with
\* empty text and one without text: nothing counted, nothing written.
C14_Witness ==
  /\ pc = "done"
  /\ Len(results) = 2
  /\ EmptyFiles = {1, 2}
  /\ results[1].text = Some("")
  /\ results[2].text = None
  /\ successCount = 0
  /\ outFiles = outFiles0
  /\ Len(LinesTagged("Failed to create transcript:")) = 2

\* ------------------------------------------------------------------- C15 --
\* C15: when the write of a file's output fails, the run ends in that step
\* with exit status 1; the file's request is the last one issued, no summary
\* is printed, no file is removed and no file other than the one being
\* written is changed (that one is left as it was or truncated); nothing
\* happens after the exit.
C15_WriteFailureAbortsAtOnce ==
  /\ [](WriteFailureReported =>
          /\ pc = "exited"
          /\ exitCode = Some(1)
          /\ Succeeded(results[i + 1])
          /\ Len(requests) = i + 1
          /\ Len(results) = i + 1
          /\ successCount = Cardinality(SucceededFiles) - 1
          /\ ~SummaryPrinted
          /\ console[Len(console) - (IF options.debug THEN 1 ELSE 0)]
               = <<"An error occurred:", "write failed">>)
  /\ [][/\ (~WriteFailureReported /\ WriteFailureReported') =>
             LET target == OutputFile(audioFiles[i + 1])
             IN /\ pc = "writing"
                /\ pc' = "exited"
                /\ exitCode' = Some(1)
                /\ requests' = requests
                /\ DOMAIN outFiles \subseteq DOMAIN outFiles'
                /\ DOMAIN outFiles' \subseteq DOMAIN outFiles \cup {target}
                /\ \A p \in DOMAIN outFiles \ {target} : outFiles'[p] = outFiles[p]
                /\ outFiles' = outFiles \/ outFiles' = Put(outFiles, target, "")
        /\ pc = "exited" => FALSE]_vars

\* The write for the first of two files failed: the second was never
\* requested and what the output directory held before is still there.
C15_Witness ==
  /\ WriteFailureReported
  /\ exitCode = Some(1)
  /\ Len(audioFiles) = 2
  /\ Len(requests) = 1
  /\ outFiles0 = OldOutput
  /\ DOMAIN outFiles0 \subseteq DOMAIN outFiles
  /\ options.debug

\* ------------------------------------------------------------------- C16 --
\* The run has ended: after the summary, or by process.exit.
Ended == pc \in {"done", "exited"}

C17_SourceUntouchedOutputsInOutputDir ==
  /\ [](/\ \A p \in WrittenFiles : Len(p) = 2 /\ p[1] = OUTPUT_DIR[1] /\ p[1] # SOURCE_DIR[1]
        /\ DOMAIN outFiles0 \subseteq DOMAIN outFiles
        /\ tree # <<>> => SOURCE_DIR \in dirs)
  /\ [][/\ tree' = tree
        /\ dirs \subseteq dirs'
        /\ dirs' \subseteq dirs \cup {SOURCE_DIR, OUTPUT_DIR}
        /\ outFiles' # outFiles =>
             \E p \in DOMAIN outFiles' :
               /\ Len(p) = 2
               /\ p[1] = OUTPUT_DIR[1]
               /\ \A q \in DOMAIN outFiles' \ {p} :
                    q \in DOMAIN outFiles /\ outFiles'[q] = outFiles[q]]_vars

\* A file found in a subdirectory of the source directory was transcribed and
\* its transcript written directly into the output directory.
C17_Witness ==
  /\ pc = "done"
  /\ \E k \in SucceededFiles :
       /\ Len(audioFiles[k]) = 3
       /\ ClaimedOutput(audioFiles[k]) \in WrittenFiles
       /\ outFiles[ClaimedOutput(audioFiles[k])] = results[k].text[1]

====
